---- MODULE Spec2Model ----
(***************************************************************************)
(* Model of lib/http-users/user/tokens.js: the User.tokens,                *)
(* User.deleteToken and User.addToken resource methods and the routes of   *)
(* /users/:username/tokens that call them.                                 *)
(*                                                                         *)
(* A token map (user.apiTokens) is a JavaScript object: it is modelled as  *)
(* a sequence of <<name, value>> pairs in insertion order, which is the    *)
(* order the for-in loop of addToken visits the keys in.  Token names and  *)
(* token values are small naturals; 0 stands for JavaScript's undefined.   *)
(***************************************************************************)
EXTENDS Integers, Sequences, FiniteSets, TLC

\* Bounds of the model.
MaxNames == 2
MaxValues == 2
MaxCalls == 2
MaxEvents == 4

\* The account the requests of Spec are for.
Usernames == {"alice"}
\* The accounts the requests of SpecAccounts are for.
OtherUsernames == {"alice", "bob"}
Names == 1..MaxNames
Values == 1..MaxValues
Slots == 1..MaxCalls
Undefined == 0

VARIABLES
    store,  \* the UserStore: username -> user document
    calls,  \* the requests waiting for their User.update to complete
    last,   \* what the step just taken did and delivered to its caller
    quiet,  \* the last call that ran alone on its account, if nothing followed
    events  \* the requests and account changes so far (Spec bounds them)

vars == <<store, calls, last, quiet, events>>

Accounts == DOMAIN store

----------------------------------------------------------------------------
\* JavaScript objects used as maps.

Keys(m) == {m[i][1] : i \in DOMAIN m}

\* m[name]: the value stored under name, undefined when name is no key.
Lookup(m, name) ==
    IF name \in Keys(m)
    THEN m[CHOOSE i \in DOMAIN m : m[i][1] = name][2]
    ELSE Undefined

\* m[name] = value: overwrites in place, or appends a new key.
Put(m, name, value) ==
    IF name \in Keys(m)
    THEN [i \in DOMAIN m |-> IF m[i][1] = name THEN <<name, value>> ELSE m[i]]
    ELSE Append(m, <<name, value>>)

\* delete m[name]
Remove(m, name) == SelectSeq(m, LAMBDA e : e[1] # name)

----------------------------------------------------------------------------
\* The UserStore (User.get / User.update of the resource).

NoUser == [exists |-> FALSE, hasTokens |-> FALSE, apiTokens |-> <<>>]

NewUser == [exists |-> TRUE, hasTokens |-> FALSE, apiTokens |-> <<>>]

\* User.get(username, cb): the error cb receives.
UserGetErr(username) == IF store[username].exists THEN "none" ELSE "NotFound"

\* User.update(username, {apiTokens: m}, cb): the errors cb may receive.
UserUpdateErrs(username) ==
    IF store[username].exists THEN {"none", "StorageError"} ELSE {"NotFound"}

\* The stored document after update(username, {apiTokens: m}) ended with err.
UserUpdated(user, m, err) ==
    IF err = "none"
    THEN [user EXCEPT !.hasTokens = TRUE, !.apiTokens = m]
    ELSE user

----------------------------------------------------------------------------
\* User.tokens

\* user.apiTokens || {}
OrEmpty(user) == IF user.hasTokens THEN user.apiTokens ELSE <<>>

\* A User.tokens that treats an account without a token map as an error.
TokensResultStrict(err, user) ==
    IF err # "none" \/ ~user.hasTokens
    THEN [err |-> IF err # "none" THEN err ELSE "NotFound",
          defined |-> FALSE, apiTokens |-> <<>>]
    ELSE [err |-> "none", defined |-> TRUE, apiTokens |-> user.apiTokens]

\* What User.tokens hands to its callback: (err) or (null, {apiTokens: ...}).
TokensResult(err, user) ==
    IF err # "none"
    THEN [err |-> err, defined |-> FALSE, apiTokens |-> <<>>]
    ELSE [err |-> "none", defined |-> TRUE, apiTokens |-> OrEmpty(user)]

----------------------------------------------------------------------------
\* User.deleteToken

\* The outcome of the callback of User.get in deleteToken: "TypeError" when
\* user.apiTokens is undefined and apiTokens[tokenname] is read from it,
\* "TokenNotFound" when the guard returns, "update" when User.update is called.
DeleteCheck(user, tokenname) ==
    IF ~user.hasTokens THEN "TypeError"
    ELSE IF Lookup(user.apiTokens, tokenname) = Undefined THEN "TokenNotFound"
    ELSE "update"

\* A deleteToken that hands User.update an empty map.
DeleteMapCleared(user, tokenname) == <<>>

\* A deleteToken that writes the map back without removing the key.
DeleteMapKept(user, tokenname) == user.apiTokens

\* The map deleteToken hands to User.update.
DeleteMap(user, tokenname) == Remove(user.apiTokens, tokenname)

----------------------------------------------------------------------------
\* User.addToken

\* What addToken finds in tokenname when it is called with (username, callback).
Callback == 0 - 1

\* The name addToken works with: 'gen_' + random when tokenname is a function
\* (the callback in its place), tokenname itself otherwise.
AddTokenName(tokenname, generated) ==
    IF tokenname = Callback THEN generated ELSE tokenname

RECURSIVE CollisionGuard(_, _)
\* The for-in loop over apiTokens: every key whose value equals the candidate
\* replaces the candidate by a new uuid.v4(), and the loop goes on with the
\* next key.  The set of candidates the loop can end with.
CollisionGuard(m, token) ==
    IF m = <<>> THEN {token}
    ELSE IF Head(m)[2] = token
         THEN UNION {CollisionGuard(Tail(m), t) : t \in Values}
         ELSE CollisionGuard(Tail(m), token)

\* The kind decided after apiTokens[tokenname] = token: the key is there.
OperationKindAfterWrite(m, tokenname) == "update"

\* typeof apiTokens[tokenname] === "string" ? "update" : "insert"
OperationKind(m, tokenname) ==
    IF Lookup(m, tokenname) # Undefined THEN "update" ELSE "insert"

\* An addToken that hands User.update its own token alone.
AddMapOfOne(m, tokenname, token) == <<<<tokenname, token>>>>

\* An addToken that adds an entry without looking for the name.
AddMapAppended(m, tokenname, token) == Append(m, <<tokenname, token>>)

\* The map addToken hands to User.update.
AddMap(m, tokenname, token) == Put(m, tokenname, token)

\* An addToken that hands newToken on along with the error.
AddResultWithError(err, operation, tokenname, token) ==
    [err |-> err, operation |-> operation, body |-> <<<<tokenname, token>>>>]

\* An addToken that leaves newToken[tokenname] = token out.
AddResultWithoutToken(err, operation, tokenname, token) ==
    IF err # "none"
    THEN [err |-> err, operation |-> "none", body |-> <<>>]
    ELSE [err |-> "none", operation |-> operation, body |-> <<>>]

\* What the callback of User.update in addToken hands on: (err) or
\* (null, newToken), newToken = {operation: ..., <tokenname>: <token>}.
AddResult(err, operation, tokenname, token) ==
    IF err # "none"
    THEN [err |-> err, operation |-> "none", body |-> <<>>]
    ELSE [err |-> "none", operation |-> operation,
          body |-> <<<<tokenname, token>>>>]

----------------------------------------------------------------------------
\* The routes.

UsernamePassword == [method |-> "username/password", id |-> Undefined]

TokenAuth(id) == [method |-> "token", id |-> id]

AuthMethods == {UsernamePassword} \cup {TokenAuth(n) : n \in Names}

\* A route that answers every authMethod as it answers username/password.
ListResponseUnfiltered(authMethod, r) ==
    IF r.err # "none"
    THEN [status |-> 500, err |-> r.err, body |-> <<>>]
    ELSE [status |-> 200, err |-> "none", body |-> r.apiTokens]

\* A route that filters for every authMethod, username/password too.
ListResponseFiltered(authMethod, r) ==
    IF ~r.defined
    THEN [status |-> 0, err |-> "TypeError", body |-> <<>>]
    ELSE [status |-> 200, err |-> "none",
          body |-> <<<<authMethod.id, Lookup(r.apiTokens, authMethod.id)>>>>]

\* A route that answers a token whose name is no key of the map with an error.
ListResponseOwnOrError(authMethod, r) ==
    IF authMethod.method # "username/password"
    THEN IF ~r.defined
         THEN [status |-> 0, err |-> "TypeError", body |-> <<>>]
         ELSE IF authMethod.id \notin Keys(r.apiTokens)
         THEN [status |-> 500, err |-> "TokenNotFound", body |-> <<>>]
         ELSE [status |-> 200, err |-> "none",
               body |-> <<<<authMethod.id, Lookup(r.apiTokens, authMethod.id)>>>>]
    ELSE IF r.err # "none"
         THEN [status |-> 500, err |-> r.err, body |-> <<>>]
         ELSE [status |-> 200, err |-> "none", body |-> r.apiTokens]

\* GET /users/:username/tokens: the response to (err, tokens) of User.tokens.
\* With another method than username/password tokens.apiTokens is read whether
\* or not err is set: a TypeError when tokens is undefined, and no response.
ListResponse(authMethod, r) ==
    IF authMethod.method # "username/password"
    THEN IF ~r.defined
         THEN [status |-> 0, err |-> "TypeError", body |-> <<>>]
         ELSE [status |-> 200, err |-> "none",
               body |-> <<<<authMethod.id, Lookup(r.apiTokens, authMethod.id)>>>>]
    ELSE IF r.err # "none"
         THEN [status |-> 500, err |-> r.err, body |-> <<>>]
         ELSE [status |-> 200, err |-> "none", body |-> r.apiTokens]

\* The arguments of addOrUpdateToken.  The router hands every handler the
\* parameters of the route and a callback: PUT /:tokenname gives
\* (username, tokenname, callback), POST gives (username, callback).
PutArguments(username, tokenname) ==
    [length |-> 3, username |-> username, tokenname |-> tokenname]

PostArguments(username) ==
    [length |-> 2, username |-> username, tokenname |-> Undefined]

\* An addOrUpdateToken that takes three arguments for the call without a name.
RouteTokenNameOfThree(arguments, generated) ==
    IF arguments.length = 3
    THEN [tokenname |-> generated, auto |-> TRUE]
    ELSE [tokenname |-> arguments.tokenname, auto |-> FALSE]

\* The name addOrUpdateToken hands to addToken: 'token_' + random when it has
\* two arguments, its second argument otherwise.
RouteTokenName(arguments, generated) ==
    IF arguments.length = 2
    THEN [tokenname |-> generated, auto |-> TRUE]
    ELSE [tokenname |-> arguments.tokenname, auto |-> FALSE]

\* DELETE /users/:username/tokens/:tokenname
DeleteStatus(err) == IF err # "none" THEN 500 ELSE 201

\* POST, PUT /users/:username/tokens/:tokenname
AddStatus(err) == IF err # "none" THEN 500 ELSE 201

----------------------------------------------------------------------------
\* State.

NoQuiet == [acct |-> "", op |-> "none", name |-> 0, before |-> <<>>]

Idle == [op |-> "idle", acct |-> "", name |-> 0, token |-> 0,
         operation |-> "none", apiTokens |-> <<>>,
         solo |-> FALSE, predOp |-> "none", predName |-> 0,
         read |-> <<>>]

\* A step that answers no request leaves NoEvent in last.
NoEvent ==
    [op |-> "none", phase |-> "none", acct |-> "", name |-> 0,
     method |-> "", id |-> 0, called |-> FALSE, err |-> "none",
     thrown |-> FALSE, status |-> 0,
     operation |-> "none", body |-> <<>>, tokens |-> <<>>,
     solo |-> FALSE, predOp |-> "none", predName |-> 0, lost |-> {},
     asked |-> 0, auto |-> FALSE, undone |-> 0, revived |-> {},
     gets |-> 0, updates |-> 0]

\* The event of a call in the callback of its User.get (phase "get", one
\* User.get called) or of its User.update (phase "update", one of each).
Event(op, phase, acct, name) ==
    [NoEvent EXCEPT !.op = op, !.phase = phase, !.acct = acct, !.name = name,
                    !.gets = 1,
                    !.updates = IF phase = "update" THEN 1 ELSE 0]

InFlight(a) == {s \in Slots : calls[s].op # "idle" /\ calls[s].acct = a}

\* The slot a new request takes.
FreeSlot(s) ==
    /\ calls[s].op = "idle"
    /\ \A t \in Slots : t < s => calls[t].op # "idle"

\* A step on account a ends the solitude of every other call on a.
Disturb(cs, a, s) ==
    [t \in Slots |->
        IF t # s /\ cs[t].op # "idle" /\ cs[t].acct = a
        THEN [cs[t] EXCEPT !.solo = FALSE]
        ELSE cs[t]]

\* The call that completed alone on a right before this step, if any.
QuietFor(a) == IF quiet.acct = a /\ InFlight(a) = {} THEN quiet ELSE NoQuiet

Unquiet(a) == IF quiet.acct = a THEN NoQuiet ELSE quiet

Init ==
    /\ store = [a \in Usernames |-> NoUser]
    /\ calls = [s \in Slots |-> Idle]
    /\ last = NoEvent
    /\ quiet = NoQuiet
    /\ events = 0

\* The same start with two usernames.
InitAccounts ==
    /\ store = [a \in OtherUsernames |-> NoUser]
    /\ calls = [s \in Slots |-> Idle]
    /\ last = NoEvent
    /\ quiet = NoQuiet
    /\ events = 0

----------------------------------------------------------------------------
\* The accounts come and go outside this code.

CreateAccount(a) ==
    /\ ~store[a].exists
    /\ store' = [store EXCEPT ![a] = NewUser]
    /\ calls' = Disturb(calls, a, 0)
    /\ quiet' = Unquiet(a)
    /\ last' = NoEvent

RemoveAccount(a) ==
    /\ store[a].exists
    /\ store' = [store EXCEPT ![a] = NoUser]
    /\ calls' = Disturb(calls, a, 0)
    /\ quiet' = Unquiet(a)
    /\ last' = NoEvent

\* GET /users/:username/tokens: User.tokens and the response of the route.
List(a, authMethod) ==
    LET r == TokensResult(UserGetErr(a), store[a])
        resp == ListResponse(authMethod, r)
    IN  /\ last' = [Event("list", "get", a, 0) EXCEPT
                        !.method = authMethod.method, !.id = authMethod.id,
                        !.called = TRUE, !.err = r.err,
                        !.thrown = (resp.err = "TypeError"),
                        !.status = resp.status, !.body = resp.body,
                        !.tokens = r.apiTokens,
                        !.solo = (InFlight(a) = {}),
                        !.predOp = QuietFor(a).op,
                        !.predName = QuietFor(a).name]
        /\ calls' = Disturb(calls, a, 0)
        /\ quiet' = Unquiet(a)
        /\ UNCHANGED store

\* DELETE /users/:username/tokens/:tokenname up to the callback of User.get.
DeleteGet(s, a, tokenname) ==
    LET err == UserGetErr(a)
        user == store[a]
        check == DeleteCheck(user, tokenname)
        ev == Event("delete", "get", a, tokenname)
    IN  /\ FreeSlot(s)
        /\ quiet' = Unquiet(a)
        /\ UNCHANGED store
        /\ IF err # "none"
           THEN /\ calls' = Disturb(calls, a, 0)
                /\ last' = [ev EXCEPT !.called = TRUE, !.err = err,
                                      !.status = DeleteStatus(err)]
           ELSE IF check = "TypeError"
           THEN /\ calls' = Disturb(calls, a, 0)
                /\ last' = [ev EXCEPT !.thrown = TRUE]
           ELSE IF check = "TokenNotFound"
           THEN /\ calls' = Disturb(calls, a, 0)
                /\ last' = [ev EXCEPT !.called = TRUE, !.err = check,
                                      !.status = DeleteStatus(check)]
           ELSE /\ calls' = Disturb(
                        [calls EXCEPT ![s] =
                            [op |-> "delete", acct |-> a, name |-> tokenname,
                             token |-> 0, operation |-> "none",
                             apiTokens |-> DeleteMap(user, tokenname),
                             solo |-> (InFlight(a) = {}),
                             predOp |-> QuietFor(a).op,
                             predName |-> QuietFor(a).name,
                             read |-> user.apiTokens]], a, s)
                /\ last' = NoEvent

\* User.update of deleteToken completes: its callback and the response.
DeleteUpdate(s) ==
    LET c == calls[s]
        a == c.acct
    IN  /\ c.op = "delete"
        /\ \E err \in UserUpdateErrs(a) :
            /\ store' = [store EXCEPT ![a] = UserUpdated(@, c.apiTokens, err)]
            /\ calls' = Disturb([calls EXCEPT ![s] = Idle], a, s)
            /\ last' = [Event("delete", "update", a, c.name) EXCEPT
                            !.called = TRUE, !.err = err,
                            !.status = DeleteStatus(err),
                            !.solo = c.solo,
                            !.predOp = c.predOp, !.predName = c.predName,
                            !.lost = IF err = "none"
                                     THEN (Keys(store[a].apiTokens)
                                            \ Keys(c.apiTokens)) \ {c.name}
                                     ELSE {}]
            /\ quiet' = IF err = "none" /\ c.solo
                        THEN [acct |-> a, op |-> "delete", name |-> c.name,
                              before |-> store[a].apiTokens]
                        ELSE Unquiet(a)

\* POST, PUT /users/:username/tokens/:tokenname up to the callback of
\* User.get; generated is the random name addOrUpdateToken may draw and token
\* the uuid.v4() addToken draws before it calls User.get.
AddGet(s, arguments, generated, token) ==
    LET a == arguments.username
        route == RouteTokenName(arguments, generated)
        tokenname == AddTokenName(route.tokenname, generated)
        err == UserGetErr(a)
        m == OrEmpty(store[a])
        ev == [Event("add", "get", a, tokenname) EXCEPT
                    !.asked = arguments.tokenname, !.auto = route.auto]
    IN  /\ FreeSlot(s)
        /\ quiet' = Unquiet(a)
        /\ UNCHANGED store
        /\ IF err # "none"
           THEN /\ calls' = Disturb(calls, a, 0)
                /\ last' = [ev EXCEPT !.called = TRUE, !.err = err,
                                      !.status = AddStatus(err)]
           ELSE \E t \in CollisionGuard(m, token) :
                /\ calls' = Disturb(
                        [calls EXCEPT ![s] =
                            [op |-> "add", acct |-> a, name |-> tokenname,
                             token |-> t,
                             operation |-> OperationKind(m, tokenname),
                             apiTokens |-> AddMap(m, tokenname, t),
                             solo |-> (InFlight(a) = {}),
                             predOp |-> QuietFor(a).op,
                             predName |-> QuietFor(a).name,
                             read |-> m]], a, s)
                /\ last' = ev

\* User.update of addToken completes: its callback and the response.
AddUpdate(s) ==
    LET c == calls[s]
        a == c.acct
    IN  /\ c.op = "add"
        /\ \E err \in UserUpdateErrs(a) :
            LET r == AddResult(err, c.operation, c.name, c.token)
            IN  /\ store' = [store EXCEPT
                                ![a] = UserUpdated(@, c.apiTokens, err)]
                /\ calls' = Disturb([calls EXCEPT ![s] = Idle], a, s)
                /\ last' = [Event("add", "update", a, c.name) EXCEPT
                                !.called = TRUE, !.err = r.err,
                                !.status = AddStatus(r.err),
                                !.operation = r.operation, !.body = r.body,
                                !.solo = c.solo,
                                !.predOp = c.predOp, !.predName = c.predName,
                                !.lost = IF err = "none"
                                         THEN Keys(store[a].apiTokens)
                                                \ Keys(c.apiTokens)
                                         ELSE {},
                                !.undone = IF /\ last.op = "delete"
                                              /\ last.phase = "update"
                                              /\ last.err = "none"
                                              /\ last.acct = a
                                           THEN last.name ELSE 0,
                                !.revived = IF err = "none"
                                            THEN (Keys(c.read)
                                                    \ Keys(OrEmpty(store[a])))
                                                 \cap Keys(c.apiTokens)
                                            ELSE {}]
                /\ quiet' = IF err = "none" /\ c.solo
                            THEN [acct |-> a, op |-> "add", name |-> c.name,
                                  before |-> OrEmpty(store[a])]
                            ELSE Unquiet(a)

\* A request arrives or an account changes, within the bound on events.
Arrival == events < MaxEvents /\ events' = events + 1

Next ==
    \/ \E a \in Accounts : Arrival /\ CreateAccount(a)
    \/ \E a \in Accounts : Arrival /\ RemoveAccount(a)
    \/ \E a \in Accounts, authMethod \in AuthMethods :
            Arrival /\ List(a, authMethod)
    \/ \E s \in Slots, a \in Accounts, n \in Names :
            Arrival /\ DeleteGet(s, a, n)
    \/ \E s \in Slots : DeleteUpdate(s) /\ UNCHANGED events
    \/ \E s \in Slots, a \in Accounts, n \in Names, t \in Values :
            Arrival /\ AddGet(s, PutArguments(a, n), n, t)
    \/ \E s \in Slots, a \in Accounts, g \in Names, t \in Values :
            Arrival /\ AddGet(s, PostArguments(a), g, t)
    \/ \E s \in Slots : AddUpdate(s) /\ UNCHANGED events

\* The same steps with no bound on their number.
NextAll ==
    \/ \E a \in Accounts : CreateAccount(a) /\ UNCHANGED events
    \/ \E a \in Accounts : RemoveAccount(a) /\ UNCHANGED events
    \/ \E a \in Accounts, authMethod \in AuthMethods :
            List(a, authMethod) /\ UNCHANGED events
    \/ \E s \in Slots, a \in Accounts, n \in Names :
            DeleteGet(s, a, n) /\ UNCHANGED events
    \/ \E s \in Slots : DeleteUpdate(s) /\ UNCHANGED events
    \/ \E s \in Slots, a \in Accounts, n \in Names, t \in Values :
            AddGet(s, PutArguments(a, n), n, t) /\ UNCHANGED events
    \/ \E s \in Slots, a \in Accounts, g \in Names, t \in Values :
            AddGet(s, PostArguments(a), g, t) /\ UNCHANGED events
    \/ \E s \in Slots : AddUpdate(s) /\ UNCHANGED events

Spec == Init /\ [][Next]_vars

SpecAll == Init /\ [][NextAll]_vars

\* The requests of two accounts.
SpecAccounts == InitAccounts /\ [][Next]_vars

----------------------------------------------------------------------------
\* The token map of account a as User.tokens and addToken read it.
Stored(a) == OrEmpty(store[a])

Distinct(m) == \A i, j \in DOMAIN m : m[i][2] = m[j][2] => i = j

\* C1: the token values stored for an account are pairwise distinct after
\* any sequence of addToken calls: an add never stores a value that another
\* token of the account already has.
C1_ValuesPairwiseDistinct == \A a \in Accounts : Distinct(Stored(a))

\* A DELETE request for (a, n) was answered by the callback of User.get.
DeleteAnswered(a, n) ==
    /\ last'.op = "delete" /\ last'.phase = "get"
    /\ last'.acct = a /\ last'.name = n

\* A DELETE request for (a, n) called User.update.
DeleteIssued(a, n) ==
    \E s \in Slots :
        /\ calls[s].op = "idle" /\ calls'[s].op = "delete"
        /\ calls'[s].acct = a /\ calls'[s].name = n

\* C2: deleteToken of a name that is no key of the token map of an existing
\* account (a token map that is still absent included) hands TokenNotFound to
\* its callback, calls no User.update and leaves the stored map unchanged.
C2_DeleteMissingIsTokenNotFound ==
    [][\A a \in Accounts, n \in Names :
        (/\ DeleteAnswered(a, n) \/ DeleteIssued(a, n)
         /\ store[a].exists
         /\ n \notin Keys(Stored(a)))
        => (/\ last'.called
            /\ last'.err = "TokenNotFound"
            /\ ~DeleteIssued(a, n)
            /\ store' = store)]_vars

\* C3: a List request for an account that does not exist is answered with
\* the NotFound failure of the account fetch, whatever the authMethod is, and
\* with no token map.
C3_ListMissingAccountIsNotFound ==
    (last.op = "list" /\ ~store[last.acct].exists)
    => (/\ ~last.thrown
        /\ last.status = 500
        /\ last.err = "NotFound"
        /\ last.body = <<>>)

RepeatedAdd ==
    /\ last.op = "add" /\ last.phase = "update"
    /\ last.solo
    /\ last.predOp = "add" /\ last.predName = last.name

Entries(m, name) == SelectSeq(m, LAMBDA e : e[1] = name)

\* C5 as stated: with no concurrent operation on the account the second of
\* two addToken calls for the same name never fails, reports "update", and
\* leaves exactly one entry of that name, holding the value it returned.
C5_RepeatedAddNeverFails ==
    RepeatedAdd
    => (/\ last.err = "none"
        /\ last.operation = "update"
        /\ Len(Entries(Stored(last.acct), last.name)) = 1
        /\ Lookup(last.body, last.name) = Lookup(Stored(last.acct), last.name))

\* C5 amended: the second call fails only with the StorageError of its own
\* User.update; when it succeeds it reports "update" and leaves exactly one
\* entry of that name, holding the value it returned.
C5_RepeatedAddRotates ==
    RepeatedAdd
    => (/\ last.err \in {"none", "StorageError"}
        /\ last.err = "none"
            => (/\ last.operation = "update"
                /\ Len(Entries(Stored(last.acct), last.name)) = 1
                /\ Keys(last.body) = {last.name}
                /\ Lookup(last.body, last.name) \in Values
                /\ Lookup(last.body, last.name)
                        = Lookup(Stored(last.acct), last.name)))

C5_Witness == RepeatedAdd /\ last.err = "none" /\ last.operation = "update"

\* C6: the operation kind of addToken is "update" exactly when the token name
\* is a key of the map as User.get delivered it, before the new value is
\* written into it, and "insert" otherwise; the answer carries that kind.
C6_KindFromMapAsRead ==
    [][\A s \in Slots :
        /\ (calls[s].op = "idle" /\ calls'[s].op = "add")
            => /\ calls'[s].operation = "update"
                    <=> calls'[s].name \in Keys(Stored(calls'[s].acct))
               /\ calls'[s].operation = "insert"
                    <=> calls'[s].name \notin Keys(Stored(calls'[s].acct))
        /\ (calls[s].op = "add" /\ calls'[s].op = "idle" /\ last'.err = "none")
            => last'.operation = calls[s].operation]_vars

C6_Witness ==
    /\ last.op = "add" /\ last.phase = "update" /\ last.err = "none"
    /\ last.operation = "insert"
    /\ Len(Stored(last.acct)) > 1

\* C7: a successful write of addToken replaces the stored map by the map the
\* call built from its own read: the writer's token is stored with the value
\* it returned, and every token another call stored since that read is gone.
C7_LaterWriteWins ==
    [][\A s \in Slots :
        (calls[s].op = "add" /\ calls'[s].op = "idle" /\ last'.err = "none")
        => LET a == calls[s].acct
               name == calls[s].name
               after == OrEmpty(store'[a])
           IN  /\ last'.status = 201
               /\ after = calls[s].apiTokens
               /\ Lookup(last'.body, name) \in Values
               /\ Lookup(after, name) = Lookup(last'.body, name)
               /\ last'.lost = Keys(Stored(a)) \ Keys(after)]_vars

\* Two adds of different names raced: the later writer answered with success
\* and the stored map holds its token only, the earlier writer's is lost.
C7_Witness ==
    /\ last.op = "add" /\ last.phase = "update" /\ last.err = "none"
    /\ last.lost # {}
    /\ Keys(Stored(last.acct)) = {last.name}

\* C8: with no concurrent operation on the account, the list that follows a
\* successful deleteToken of k lacks k and has every other entry that was
\* stored before the delete, with its value.
C8_DeleteThenList ==
    [][\A a \in Accounts :
        (/\ last'.op = "list" /\ last'.acct = a
         /\ QuietFor(a).op = "delete")
        => (/\ last'.err = "none"
            /\ QuietFor(a).name \notin Keys(last'.tokens)
            /\ \A i \in DOMAIN QuietFor(a).before :
                QuietFor(a).before[i][1] # QuietFor(a).name
                => Lookup(last'.tokens, QuietFor(a).before[i][1])
                        = QuietFor(a).before[i][2])]_vars

C8_Witness ==
    /\ last.op = "list" /\ last.predOp = "delete"
    /\ last.err = "none"
    /\ last.tokens # <<>>

\* C9: a failing addToken (the account missing at the read; NotFound or
\* StorageError from the write) hands the error to its caller with no token
\* payload, does not call User.update again, and leaves the store as it was.
C9_FailedAddLeavesStore ==
    [][(last'.op = "add" /\ last'.err # "none")
        => (/\ last'.called
            /\ last'.status = 500
            /\ last'.body = <<>> /\ last'.operation = "none"
            /\ last'.err \in {"NotFound", "StorageError"}
            /\ store' = store
            /\ \A s \in Slots : calls'[s].op # "idle" => calls[s].op # "idle"
            /\ last'.phase = "update"
                => Cardinality({s \in Slots : calls'[s].op = "add"})
                    < Cardinality({s \in Slots : calls[s].op = "add"}))]_vars

C9_Witness ==
    /\ last.op = "add" /\ last.phase = "update"
    /\ last.err = "NotFound"

\* C10: User.tokens on an existing account hands no error to its callback
\* but the stored token map, or an empty map when the account has none yet,
\* and the store is the same before and after.
C10_ListReadsOnly ==
    [][(last'.op = "list" /\ store[last'.acct].exists)
        => (/\ last'.called /\ last'.err = "none"
            /\ last'.tokens = IF store[last'.acct].hasTokens
                              THEN store[last'.acct].apiTokens
                              ELSE <<>>
            /\ store' = store)]_vars

C10_Witness ==
    /\ last.op = "list" /\ last.err = "none"
    /\ store[last.acct].exists /\ ~store[last.acct].hasTokens
    /\ last.tokens = <<>>

\* C11: a PUT with a token name makes addToken work under exactly that name
\* and a successful add stores the new value under the name of the call; a
\* generated name is used exactly when the request carries no token name.
C11_ExplicitNameIsUsed ==
    [][/\ last'.op = "add" /\ last'.phase = "get" =>
            /\ last'.auto <=> (last'.asked = Undefined)
            /\ last'.asked # Undefined => last'.name = last'.asked
       /\ \A s \in Slots :
            /\ calls[s].op = "idle" /\ calls'[s].op = "add" =>
                    /\ last'.op = "add" /\ last'.phase = "get"
                    /\ calls'[s].name = last'.name
                    /\ Lookup(calls'[s].apiTokens, last'.name)
                            = calls'[s].token
            /\ calls[s].op = "add" /\ calls'[s].op = "idle"
                    /\ last'.err = "none" =>
                    Lookup(OrEmpty(store'[last'.acct]), calls[s].name)
                        = calls[s].token]_vars

\* A PUT that names an existing token has read the account.
C11_Witness ==
    /\ last.op = "add" /\ last.phase = "get" /\ ~last.called
    /\ last.asked \in Names /\ ~last.auto
    /\ \E s \in Slots :
            /\ calls[s].op = "add" /\ calls[s].name = last.asked
            /\ calls[s].operation = "update"

\* C12: a list authenticated with username/password on an existing account
\* answers 200 with the stored token map, entry by entry; right after an add
\* that ran alone on an account without tokens, that is the one-entry map the
\* add handed to its caller.
C12_PasswordListIsComplete ==
    [][\A a \in Accounts :
        (/\ last'.op = "list" /\ last'.acct = a
         /\ last'.method = "username/password"
         /\ store[a].exists)
        => (/\ last'.status = 200 /\ ~last'.thrown
            /\ last'.body = Stored(a)
            /\ (/\ QuietFor(a).op = "add" /\ QuietFor(a).before = <<>>
                /\ last.op = "add" /\ last.phase = "update" /\ last.acct = a)
               => (/\ last'.body = last.body
                   /\ Keys(last'.body) = {QuietFor(a).name}))]_vars

\* The list with username/password that follows the first add of an account.
C12_Witness ==
    /\ last.op = "list" /\ last.method = "username/password"
    /\ last.predOp = "add" /\ last.status = 200
    /\ Len(last.body) = 1 /\ last.body = Stored(last.acct)

\* C13: an addToken of another name that read the account before a
\* deleteToken wrote, and writes right after it, undoes the delete: both calls
\* have answered with success, and the deleted name is stored again with the
\* value the add read.
C13_AddRevivesDeleted ==
    [][\A s \in Slots :
        (/\ calls[s].op = "add" /\ calls'[s].op = "idle"
         /\ last'.err = "none"
         /\ last.op = "delete" /\ last.phase = "update" /\ last.err = "none"
         /\ last.acct = calls[s].acct
         /\ last.name # calls[s].name
         /\ last.name \in Keys(calls[s].read))
        => LET a == calls[s].acct
               after == OrEmpty(store'[a])
           IN  /\ last.called /\ last.status = 201
               /\ last'.called /\ last'.status = 201
               /\ last.name \notin Keys(Stored(a))
               /\ last.name \in Keys(after)
               /\ Lookup(after, last.name) = Lookup(calls[s].read, last.name)
               /\ last'.undone = last.name
               /\ last.name \in last'.revived]_vars

\* The add of another name has written right after the delete it had read
\* before, and the deleted name is in the stored map again.
C13_Witness ==
    /\ last.op = "add" /\ last.phase = "update" /\ last.err = "none"
    /\ last.undone \in last.revived
    /\ last.undone # last.name
    /\ last.undone \in Keys(Stored(last.acct))

\* C14: a list authenticated with a token whose name is no key of the map of
\* an existing account answers 200, not an error: the body has the caller's
\* token name as its only key, with the value undefined, and no other token.
C14_AbsentOwnTokenIsUndefined ==
    (/\ last.op = "list" /\ last.method = "token"
     /\ store[last.acct].exists
     /\ last.id \notin Keys(Stored(last.acct)))
    => (/\ last.status = 200 /\ last.err = "none" /\ ~last.thrown
        /\ last.called
        /\ last.body = <<<<last.id, Undefined>>>>
        /\ last.tokens = Stored(last.acct))

\* The caller's token was deleted by the call that completed right before the
\* list.
C14_Witness ==
    /\ last.op = "list" /\ last.method = "token"
    /\ last.predOp = "delete" /\ last.predName = last.id
    /\ last.status = 200
    /\ last.body = <<<<last.id, Undefined>>>>

\* C15: a successful addToken or deleteToken of name k that ran with no other
\* step on its account between its read and its write changes the entry k of
\* the stored map only: add sets k, delete removes k, every other name keeps
\* its value, and the documents of all other accounts are as they were.
C15_OnlyTheNamedEntryChanges ==
    [][\A s \in Slots :
        (/\ calls[s].op # "idle" /\ calls'[s].op = "idle"
         /\ calls[s].solo /\ last'.err = "none")
        => LET a == calls[s].acct
               k == calls[s].name
               before == Stored(a)
               after == OrEmpty(store'[a])
           IN  /\ \A b \in Accounts \ {a} : store'[b] = store[b]
               /\ \A n \in Names \ {k} :
                    Lookup(after, n) = Lookup(before, n)
               /\ calls[s].op = "add" =>
                    /\ Keys(after) = Keys(before) \cup {k}
                    /\ Lookup(after, k) = calls[s].token
               /\ calls[s].op = "delete" =>
                    /\ k \in Keys(before)
                    /\ Keys(after) = Keys(before) \ {k}]_vars

\* An add that ran alone has written while another account holds tokens.
C15_Witness ==
    /\ last.op = "add" /\ last.phase = "update"
    /\ last.solo /\ last.err = "none"
    /\ \E b \in Accounts \ {last.acct} : Stored(b) # <<>>

\* A call of tokens, addToken or deleteToken has come to its end: its
\* User.update completed, or its callback of User.get called back or threw.
Ended == last.op # "none" /\ (last.phase = "update" \/ last.called \/ last.thrown)

\* C16: every call of tokens, addToken or deleteToken calls User.get once and
\* User.update at most once, only after User.get succeeded, never for tokens
\* and never after TokenNotFound, and calls its callback once on every path.
C16_OneGetOneCallback ==
    Ended =>
        /\ last.gets = 1
        /\ last.updates \in {0, 1}
        /\ last.updates = 1 => last.op \in {"add", "delete"}
        /\ last.op = "list" => last.updates = 0
        /\ last.err = "TokenNotFound" => last.updates = 0
        /\ (last.phase = "get" /\ last.err # "none") => last.updates = 0
        /\ last.called

====
